---------------------------- MODULE Spec2Model ----------------------------
(***************************************************************************)
(* Story generator: the client's error classifier (parseErrorResponse),   *)
(* the generate-audio handler, and the client's playback controller       *)
(* (audioElement, isPlaying, audioProgress, ...), as state machines.      *)
(*                                                                         *)
(* Text is modelled as a sequence of word tokens; String.includes(kw)     *)
(* is "some token of the text has kw as a substring", with the substring  *)
(* relation between the words of the vocabulary tabulated in Contains.    *)
(***************************************************************************)
EXTENDS Integers, Sequences, FiniteSets, TLC

(***************************************************************************)
(* Bounds of the model.                                                    *)
(***************************************************************************)
\* stories the user generates in one session
MaxStories == 2
\* successful voice generations (blob URLs created) in one session
MaxBlobs == 2
\* media events queued and not yet delivered
MaxQueue == 3
\* duration of every clip, in media-clock ticks
MaxTime == 2

(***************************************************************************)
(* Text.                                                                   *)
(***************************************************************************)
\* String.prototype.toLowerCase on one word
Lower(tok) ==
    CASE tok = "Quota" -> "quota"
      [] tok = "QUOTA" -> "quota"
      [] tok = "Token" -> "token"
      [] tok = "Credit" -> "credit"
      [] tok = "Credits" -> "credits"
      [] tok = "Not" -> "not"
      [] tok = "Status" -> "status"
      [] tok = "Unauthorized" -> "unauthorized"
      [] tok = "Authentication" -> "authentication"
      [] tok = "Audio" -> "audio"
      [] tok = "Voice" -> "voice"
      [] tok = "Failed" -> "failed"
      [] tok = "Please" -> "please"
      [] tok = "Playback" -> "playback"
      [] tok = "Text" -> "text"
      [] tok = "Server" -> "server"
      [] tok = "Invalid" -> "invalid"
      [] tok = "API" -> "api"
      [] tok = "ElevenLabs" -> "elevenlabs"
      [] tok = "ELEVENLABS_API_KEY" -> "elevenlabs_api_key"
      [] tok = "Vercel" -> "vercel"
      [] tok = "errorType" -> "errortype"
      [] OTHER -> tok

\* String.prototype.toLowerCase
ToLowerCase(text) == [i \in 1..Len(text) |-> Lower(text[i])]

\* kw is a substring of the word tok (case-sensitive)
Contains(tok, kw) ==
    \/ tok = kw
    \/ <<tok, kw>> \in { <<"quota_exceeded", "quota">>,
                         <<"tokens", "token">>,
                         <<"credits", "credit">>,
                         <<"status401", "401">> }

\* String.prototype.includes
Includes(text, kw) == \E i \in 1..Len(text) : Contains(text[i], kw)

(***************************************************************************)
(* The fixed strings of the client and of the server.                      *)
(***************************************************************************)
\* 'Quota exceeded: this request requires more tokens than your remaining credits.'
QuotaMsg == <<"Quota", "exceeded", "this", "request", "requires", "more",
              "tokens", "than", "your", "remaining", "credits">>
\* 'Authentication failed: please check your API key or quota.'
AuthMsg == <<"Authentication", "failed", "please", "check", "your", "API",
             "key", "or", "quota">>
\* 'Audio generation failed. Please try again later.'
GenericMsg == <<"Audio", "generation", "failed", "Please", "try", "again", "later">>
\* 'Please generate a story first!'
NoStoryMsg == <<"Please", "generate", "a", "story", "first">>
\* 'Audio not available'
NoAudioMsg == <<"Audio", "not", "available">>
\* 'Playback failed. Please try again.'
PlayFailedMsg == <<"Playback", "failed", "Please", "try", "again">>
\* 'Audio playback failed. Please try again.'
MediaFailedMsg == <<"Audio", "playback", "failed", "Please", "try", "again">>
\* 'Voice generated successfully!'
SuccessMsg == <<"Voice", "generated", "successfully">>

\* 'Server configuration error: ElevenLabs API key not configured'
SrvConfigMsg == <<"Server", "configuration", "error", "ElevenLabs", "API",
                  "key", "not", "configured">>
\* 'Please set ELEVENLABS_API_KEY in Vercel environment variables'
SrvConfigDetails == <<"Please", "set", "ELEVENLABS_API_KEY", "in", "Vercel",
                      "environment", "variables">>
\* 'Text is required'
SrvTextRequired == <<"Text", "is", "required">>
\* 'Method not allowed'
SrvMethodMsg == <<"Method", "not", "allowed">>
\* 'Failed to generate audio'
SrvFailedMsg == <<"Failed", "to", "generate", "audio">>
\* 'Voice generation temporarily unavailable: you've exceeded your token or credit limit.'
SrvQuotaMsg == <<"Voice", "generation", "temporarily", "unavailable", "you've",
                 "exceeded", "your", "token", "or", "credit", "limit">>
\* 'Authentication failed. Please check your API key.'
SrvAuthMsg == <<"Authentication", "failed", "Please", "check", "your", "API", "key">>

\* JavaScript's undefined / an absent field
Undefined == <<"#undefined">>

(***************************************************************************)
(* JSON bodies.  A response body is absent, unparseable text, JSON null,   *)
(* a JSON string, or a flat JSON object (a function from field names to    *)
(* texts).                                                                 *)
(***************************************************************************)
KeyOrder == <<"error", "errorType", "details", "message", "status">>

\* JSON.stringify of an object: its keys and values, in key order
RECURSIVE StringifyFrom(_, _)
StringifyFrom(obj, i) ==
    IF i > Len(KeyOrder) THEN <<>>
    ELSE LET k == KeyOrder[i]
         IN  (IF k \in DOMAIN obj THEN <<k>> \o obj[k] ELSE <<>>)
               \o StringifyFrom(obj, i + 1)

\* JSON.stringify(errorData)
JSONStringify(data) ==
    CASE data.kind = "null" -> <<"null">>
      [] data.kind = "string" -> data.text
      [] OTHER -> StringifyFrom(data.obj, 1)

\* errorData.errorType (undefined when the field is absent or errorData is a string)
ErrorTypeOf(data) ==
    IF data.kind = "object" /\ "errorType" \in DOMAIN data.obj
    THEN data.obj["errorType"] ELSE Undefined

NetworkInfo == [message |-> GenericMsg, type |-> "network"]

\* parseErrorResponse without its try/catch, as printed in IMPROVEMENTS_V2.md:
\* the promise rejects when the body cannot be read as a JSON object or
\* string (sensitivity of C14)
parseErrorResponse_NoCatch(response) ==
    LET body == response.body IN
    IF body.kind \in {"absent", "text", "used", "null"}
    THEN [message |-> <<>>, type |-> "rejected"]
    ELSE LET errorText == ToLowerCase(JSONStringify(body)) IN
         IF \/ ErrorTypeOf(body) = <<"quota_exceeded">>
            \/ response.status = 429
            \/ Includes(errorText, "quota_exceeded")
            \/ Includes(errorText, "quota")
            \/ Includes(errorText, "credit")
            \/ Includes(errorText, "token")
         THEN [message |-> QuotaMsg, type |-> "quota"]
         ELSE IF \/ response.status = 401
                 \/ ErrorTypeOf(body) = <<"auth_error">>
                 \/ Includes(errorText, "401")
                 \/ Includes(errorText, "authentication")
                 \/ Includes(errorText, "unauthorized")
         THEN [message |-> AuthMsg, type |-> "auth"]
         ELSE NetworkInfo

\* parseErrorResponse with its quota test removed (sensitivity of C1)
parseErrorResponse_NoQuota(response) ==
    LET body == response.body IN
    IF body.kind \in {"absent", "text", "used", "null"} THEN NetworkInfo
    ELSE LET errorText == ToLowerCase(JSONStringify(body)) IN
         IF \/ response.status = 401
            \/ ErrorTypeOf(body) = <<"auth_error">>
            \/ Includes(errorText, "401")
            \/ Includes(errorText, "authentication")
            \/ Includes(errorText, "unauthorized")
         THEN [message |-> AuthMsg, type |-> "auth"]
         ELSE NetworkInfo

\* parseErrorResponse(response): response = [status, body]
parseErrorResponse(response) ==
    LET body == response.body IN
    \* await response.json() rejects (nothing to parse, not JSON, or the body
    \* was read before): the catch block
    IF body.kind \in {"absent", "text", "used"} THEN NetworkInfo
    \* errorData is null: errorData.errorType throws a TypeError, caught
    ELSE IF body.kind = "null" THEN NetworkInfo
    ELSE LET errorText == ToLowerCase(JSONStringify(body)) IN
         IF \/ ErrorTypeOf(body) = <<"quota_exceeded">>
            \/ response.status = 429
            \/ Includes(errorText, "quota_exceeded")
            \/ Includes(errorText, "quota")
            \/ Includes(errorText, "credit")
            \/ Includes(errorText, "token")
         THEN [message |-> QuotaMsg, type |-> "quota"]
         ELSE IF \/ response.status = 401
                 \/ ErrorTypeOf(body) = <<"auth_error">>
                 \/ Includes(errorText, "401")
                 \/ Includes(errorText, "authentication")
                 \/ Includes(errorText, "unauthorized")
         THEN [message |-> AuthMsg, type |-> "auth"]
         ELSE NetworkInfo

(***************************************************************************)
(* The generate-audio handler (api/generate-audio.js).                     *)
(*   req = [method, body, text]                                            *)
(*         body: "json", "none" (no body was sent) or "garbage" (a body    *)
(*         that is not JSON); text, of a "json" body: 0 is empty or        *)
(*         missing, else a story id                                        *)
(*   env = [key]            whether ELEVENLABS_API_KEY is set              *)
(*   up  = the outcome of elevenlabs.textToSpeech.convert:                 *)
(*         [ok, statusCode, message, hasBody, hasDetail, dStatus,          *)
(*          dMessage]; statusCode 0 and a text of Undefined are absent     *)
(* The result is [status, body, called]: the HTTP response, and whether    *)
(* the upstream call was made.                                             *)
(***************************************************************************)
JsonObject(obj) == [kind |-> "object", obj |-> obj]

\* res.status(statusCode).json({error, errorType, details}); JSON drops an
\* undefined details
ErrorResponse(statusCode, errorMessage, errorType, details, called) ==
    [status |-> statusCode,
     body |-> JsonObject(
        IF details = Undefined
        THEN [error |-> errorMessage, errorType |-> <<errorType>>]
        ELSE [error |-> errorMessage, errorType |-> <<errorType>>,
              details |-> details]),
     called |-> called]

\* detail.message?.toLowerCase().includes(kw)
DetailMentions(up, kw) ==
    /\ up.dMessage # Undefined
    /\ Includes(ToLowerCase(up.dMessage), kw)

\* the quota test of the catch block
IsQuotaDetail(up) ==
    \/ up.dStatus = <<"quota_exceeded">>
    \/ DetailMentions(up, "quota")
    \/ DetailMentions(up, "credit")
    \/ DetailMentions(up, "token")

\* the authentication test of the catch block
IsAuthError(up) ==
    \/ up.statusCode = 401
    \/ (up.message # Undefined /\ Includes(up.message, "401"))

\* the catch block answering with the status the upstream returned, when it
\* returned one (sensitivity of C16)
CatchBlock_UpstreamStatus(up) ==
    LET quota == up.hasBody /\ up.hasDetail /\ IsQuotaDetail(up)
        passed == up.hasBody /\ up.hasDetail /\ ~IsQuotaDetail(up)
                    /\ up.dMessage # Undefined /\ up.dMessage # <<>>
        errorType1 == IF quota THEN "quota_exceeded" ELSE "network"
        errorMessage1 == IF quota THEN SrvQuotaMsg
                         ELSE IF passed THEN up.dMessage ELSE SrvFailedMsg
        statusCode1 == IF up.statusCode # 0 THEN up.statusCode
                       ELSE IF quota THEN 429 ELSE 500
    IN  IF IsAuthError(up)
        THEN ErrorResponse(IF up.statusCode # 0 THEN up.statusCode ELSE 401,
                           SrvAuthMsg, "auth_error", up.message, TRUE)
        ELSE ErrorResponse(statusCode1, errorMessage1, errorType1, up.message, TRUE)

\* the catch block: classify the upstream failure
CatchBlock(up) ==
    LET quota == up.hasBody /\ up.hasDetail /\ IsQuotaDetail(up)
        \* errorMessage = detail.message || errorMessage
        passed == up.hasBody /\ up.hasDetail /\ ~IsQuotaDetail(up)
                    /\ up.dMessage # Undefined /\ up.dMessage # <<>>
        errorType1 == IF quota THEN "quota_exceeded" ELSE "network"
        errorMessage1 == IF quota THEN SrvQuotaMsg
                         ELSE IF passed THEN up.dMessage ELSE SrvFailedMsg
        statusCode1 == IF quota THEN 429 ELSE 500
    IN  IF IsAuthError(up)
        THEN ErrorResponse(401, SrvAuthMsg, "auth_error", up.message, TRUE)
        ELSE ErrorResponse(statusCode1, errorMessage1, errorType1, up.message, TRUE)

\* 'Please set ELEVENLABS_API_KEY in Netlify environment variables'
NetlifyConfigDetails == <<"Please", "set", "ELEVENLABS_API_KEY", "in", "Netlify",
                          "environment", "variables">>

\* the TypeError of "const { text } = req.body" when req.body is undefined
DestructureError ==
    [ok |-> FALSE, statusCode |-> 0,
     message |-> <<"Cannot", "destructure", "property", "text", "of", "req.body">>,
     hasBody |-> FALSE, hasDetail |-> FALSE, dStatus |-> Undefined,
     dMessage |-> Undefined]

\* the error of reading a request body that is not JSON (the platform's
\* 'Invalid JSON' error with statusCode 400, or JSON.parse's SyntaxError)
InvalidJsonError(statusCode) ==
    [ok |-> FALSE, statusCode |-> statusCode, message |-> <<"Invalid", "JSON">>,
     hasBody |-> FALSE, hasDetail |-> FALSE, dStatus |-> Undefined,
     dMessage |-> Undefined]

\* the catch block entered before the upstream call was made
CaughtEarly(error) == [CatchBlock(error) EXCEPT !.called = FALSE]

\* the handler with the text looked at only after the upstream call
\* (sensitivity of C20)
handler_ValidateLate(req, env, up) ==
    IF ~env.key
    THEN ErrorResponse(500, SrvConfigMsg, "configuration", SrvConfigDetails, FALSE)
    ELSE IF req.method = "OPTIONS"
    THEN [status |-> 200, body |-> [kind |-> "absent"], called |-> FALSE]
    ELSE IF req.method # "POST"
    THEN [status |-> 405, body |-> JsonObject([error |-> SrvMethodMsg]),
          called |-> FALSE]
    ELSE IF req.body = "none" THEN CaughtEarly(DestructureError)
    ELSE IF req.body = "garbage" THEN CaughtEarly(InvalidJsonError(400))
    ELSE IF ~up.ok THEN CatchBlock(up)
    ELSE IF req.text = 0
    THEN [status |-> 400,
          body |-> JsonObject([error |-> SrvTextRequired,
                               errorType |-> <<"validation">>]),
          called |-> TRUE]
    ELSE [status |-> 200, body |-> [kind |-> "audio"], called |-> TRUE]

handler(req, env, up) ==
    IF ~env.key
    THEN ErrorResponse(500, SrvConfigMsg, "configuration", SrvConfigDetails, FALSE)
    ELSE IF req.method = "OPTIONS"
    THEN [status |-> 200, body |-> [kind |-> "absent"], called |-> FALSE]
    ELSE IF req.method # "POST"
    THEN [status |-> 405, body |-> JsonObject([error |-> SrvMethodMsg]),
          called |-> FALSE]
    ELSE IF req.body = "none" THEN CaughtEarly(DestructureError)
    ELSE IF req.body = "garbage" THEN CaughtEarly(InvalidJsonError(400))
    ELSE IF req.text = 0
    THEN [status |-> 400,
          body |-> JsonObject([error |-> SrvTextRequired,
                               errorType |-> <<"validation">>]),
          called |-> FALSE]
    ELSE IF up.ok
    THEN [status |-> 200, body |-> [kind |-> "audio"], called |-> TRUE]
    ELSE CatchBlock(up)

\* the Netlify function (netlify/functions/generate-audio.js): the method is
\* looked at before the key, and the body is read with
\* JSON.parse(event.body || '{}')
netlifyHandler(req, env, up) ==
    IF req.method = "OPTIONS"
    THEN [status |-> 200, body |-> [kind |-> "absent"], called |-> FALSE]
    ELSE IF req.method # "POST"
    THEN [status |-> 405, body |-> JsonObject([error |-> SrvMethodMsg]),
          called |-> FALSE]
    ELSE IF ~env.key
    THEN ErrorResponse(500, SrvConfigMsg, "configuration", NetlifyConfigDetails, FALSE)
    ELSE IF req.body = "garbage" THEN CaughtEarly(InvalidJsonError(0))
    ELSE IF req.body = "none" \/ req.text = 0
    THEN [status |-> 400,
          body |-> JsonObject([error |-> SrvTextRequired,
                               errorType |-> <<"validation">>]),
          called |-> FALSE]
    ELSE IF up.ok
    THEN [status |-> 200, body |-> [kind |-> "audio"], called |-> TRUE]
    ELSE CatchBlock(up)

\* elevenlabs.textToSpeech.convert of a client constructed without an API
\* key: the call cannot succeed, the service rejects it as unauthenticated
Keyless(up) ==
    IF up.ok
    THEN [ok |-> FALSE, statusCode |-> 401, message |-> <<"Status", "code", "401">>,
          hasBody |-> FALSE, hasDetail |-> FALSE, dStatus |-> Undefined,
          dMessage |-> Undefined]
    ELSE up

\* the legacy Express server: app.use(cors()), app.use(express.json()) and
\* app.post('/api/generate-audio').  cors() answers a preflight request with
\* 204; no route matches another method (404); express.json() leaves
\* req.body = {} when no body was sent and passes a body that is not JSON to
\* the default error handler (400, an HTML page); the route does not look at
\* ELEVENLABS_API_KEY; its catch block is the one of the Vercel handler
expressRoute(req, env, up) ==
    IF req.method = "OPTIONS"
    THEN [status |-> 204, body |-> [kind |-> "absent"], called |-> FALSE]
    ELSE IF req.method # "POST"
    THEN [status |-> 404, body |-> [kind |-> "html"], called |-> FALSE]
    ELSE IF req.body = "garbage"
    THEN [status |-> 400, body |-> [kind |-> "html"], called |-> FALSE]
    ELSE IF req.body = "none" \/ req.text = 0
    THEN [status |-> 400,
          body |-> JsonObject([error |-> SrvTextRequired,
                               errorType |-> <<"validation">>]),
          called |-> FALSE]
    ELSE LET outcome == IF env.key THEN up ELSE Keyless(up)
         IN  IF outcome.ok
             THEN [status |-> 200, body |-> [kind |-> "audio"], called |-> TRUE]
             ELSE CatchBlock(outcome)

(***************************************************************************)
(* The client.  State of public/app.js and of the browser objects it uses. *)
(***************************************************************************)
VARIABLES
    currentStory,        \* 0 is '', else the id of the story shown
    audioElement,        \* 0 is null, else the id of the current Audio object
    isGenerating,
    isAudioGenerated,
    isPlaying,
    audioProgress,
    media,               \* the attributes of the current Audio object
    events,              \* media events queued by the browser, oldest first
    created,             \* Audio objects constructed so far
    urls,                \* blob URLs created so far (URL.createObjectURL)
    revoked,             \* URL -> number of URL.revokeObjectURL calls on it
    audioStatus,         \* audioStatus.textContent
    popup,               \* the last toast shown: [message, type]
    errorMessage,        \* errorMessage.textContent, <<>> while hidden
    generateBtnDisabled,
    voiceBtnDisabled,
    storyCall,           \* the generate-story request: "idle" or "fetch"
    voiceCalls,          \* generateVoice calls awaiting their response
    thrown,              \* an uncaught exception left a handler
    probe                \* a response handed to parseErrorResponse, and its result

vars == <<currentStory, audioElement, isGenerating, isAudioGenerated, isPlaying,
          audioProgress, media, events, created, urls, revoked, audioStatus,
          popup, errorMessage, generateBtnDisabled, voiceBtnDisabled,
          storyCall, voiceCalls, thrown, probe>>

\* FALLBACK_AUDIO_URL; the blob URLs are 1, 2, ...
FALLBACK_AUDIO_URL == 0

NoMedia == [src |-> -1, paused |-> TRUE, currentTime |-> 0, duration |-> 0,
            ended |-> FALSE, error |-> FALSE, listeners |-> 0]

NoPopup == [message |-> <<>>, type |-> "none"]

NoResponse == [status |-> 0, body |-> [kind |-> "absent"], called |-> FALSE]
\* fetch rejects (the network is down): no response at all
FetchRejected == [status |-> -1, body |-> [kind |-> "absent"], called |-> FALSE]

\* the controller's part of the state, as one value, on entry to a handler.
\* A toast is removed by its own timer (setTimeout in showToast): the timer is
\* taken to have fired by the time the next handler runs, so popup is the
\* toast the last handler showed
Ctl == [audioElement |-> audioElement, media |-> media, created |-> created,
        isAudioGenerated |-> isAudioGenerated, isPlaying |-> isPlaying,
        audioProgress |-> audioProgress, events |-> events, urls |-> urls,
        revoked |-> revoked, audioStatus |-> audioStatus, popup |-> NoPopup,
        thrown |-> thrown]

SetCtl(c) ==
    /\ audioElement' = c.audioElement
    /\ media' = c.media
    /\ created' = c.created
    /\ isAudioGenerated' = c.isAudioGenerated
    /\ isPlaying' = c.isPlaying
    /\ audioProgress' = c.audioProgress
    /\ events' = c.events
    /\ urls' = c.urls
    /\ revoked' = c.revoked
    /\ audioStatus' = c.audioStatus
    /\ popup' = c.popup
    /\ thrown' = c.thrown

ctlVars == <<audioElement, media, created, isAudioGenerated, isPlaying,
             audioProgress, events, urls, revoked, audioStatus, popup, thrown>>

(***************************************************************************)
(* The browser's Audio object (HTMLMediaElement).                          *)
(***************************************************************************)
\* the element queues a task for each event; the event loop runs the media
\* element tasks of the document in the order they were queued
Queue(c, evs) == [c EXCEPT !.events = @ \o evs]

\* new Audio(src): a paused element at position 0 whose duration is not known yet
NewAudio(c, src) ==
    [c EXCEPT !.created = @ + 1,
              !.audioElement = c.created + 1,
              !.media = [src |-> src, paused |-> TRUE, currentTime |-> 0,
                         duration |-> 0, ended |-> FALSE, error |-> FALSE,
                         listeners |-> 0]]

\* audioElement.pause(): queues timeupdate and pause when it was playing
ElementPause(c) ==
    IF c.media.paused THEN c
    ELSE Queue([c EXCEPT !.media.paused = TRUE], <<"timeupdate", "pause">>)

\* audioElement.play(), resolved: restarts an ended clip, queues play
ElementPlay(c) ==
    IF ~c.media.paused THEN c
    ELSE Queue([c EXCEPT !.media.paused = FALSE,
                         !.media.ended = FALSE,
                         !.media.currentTime =
                             IF c.media.ended THEN 0 ELSE @],
               IF c.media.ended THEN <<"play", "timeupdate">> ELSE <<"play">>)

\* audioElement.currentTime = 0: a seek, once the metadata is loaded
ElementRewind(c) ==
    IF c.media.duration = 0 THEN c
    ELSE Queue([c EXCEPT !.media.currentTime = 0, !.media.ended = FALSE],
               <<"timeupdate">>)

(***************************************************************************)
(* The functions of public/app.js.                                         *)
(***************************************************************************)
\* showToast(message, type, duration)
showToast(c, message, type) ==
    [c EXCEPT !.popup = [message |-> message, type |-> type]]

\* showPopup(message): the type is derived from the message text
showPopup(c, message) ==
    showToast(c, message,
              IF Includes(ToLowerCase(message), "quota") THEN "warning"
              ELSE IF Includes(ToLowerCase(message), "success") THEN "success"
              ELSE "error")

\* the status text branch of updateAudioStatus
StatusText(c) ==
    IF c.isPlaying THEN "Playing..."
    ELSE IF c.media.ended THEN "Finished"
    ELSE IF c.media.currentTime > 0 THEN "Paused"
    ELSE IF c.isAudioGenerated THEN "Ready to play"
    ELSE "Preview: default clip"

updateAudioStatus(c) ==
    IF c.audioElement = 0 THEN c
    ELSE [c EXCEPT !.audioStatus = StatusText(c)]

setupAudioEventListeners(c) ==
    IF c.audioElement = 0 THEN c
    ELSE [c EXCEPT !.media.listeners = @ + 1]

\* initializeAudioPlayer without its "if (!audioElement)" test (sensitivity of C2)
initializeAudioPlayer_Always(c) ==
    updateAudioStatus(
        [setupAudioEventListeners(NewAudio(c, FALLBACK_AUDIO_URL))
            EXCEPT !.isAudioGenerated = FALSE])

\* initializeAudioPlayer that never creates the fallback element (sensitivity of C6)
initializeAudioPlayer_Never(c) == updateAudioStatus(c)

\* initializeAudioPlayer that attaches the listeners on every call (sensitivity of C7)
initializeAudioPlayer_Relisten(c) ==
    updateAudioStatus(
        IF c.audioElement = 0
        THEN [setupAudioEventListeners(NewAudio(c, FALLBACK_AUDIO_URL))
                 EXCEPT !.isAudioGenerated = FALSE]
        ELSE setupAudioEventListeners(c))

\* initializeAudioPlayer without its updateAudioStatus() call (sensitivity of C25)
initializeAudioPlayer_NoStatus(c) ==
    IF c.audioElement = 0
    THEN [setupAudioEventListeners(NewAudio(c, FALLBACK_AUDIO_URL))
             EXCEPT !.isAudioGenerated = FALSE]
    ELSE c

initializeAudioPlayer(c) ==
    updateAudioStatus(
        IF c.audioElement = 0
        THEN [setupAudioEventListeners(NewAudio(c, FALLBACK_AUDIO_URL))
                 EXCEPT !.isAudioGenerated = FALSE]
        ELSE c)

\* the success path without the startsWith('blob:') test (sensitivity of C4)
ReplaceAudio_RevokeAny(c) ==
    LET audioUrl == c.urls + 1
        c1 == [c EXCEPT !.urls = audioUrl]
        c2 == IF c1.audioElement = 0 THEN c1
              ELSE LET p == ElementPause(c1)
                   IN  [p EXCEPT !.revoked[p.media.src] = @ + 1]
        c3 == setupAudioEventListeners(NewAudio(c2, audioUrl))
    IN  showToast(updateAudioStatus([c3 EXCEPT !.isAudioGenerated = TRUE]),
                  SuccessMsg, "success")

\* the swap that revokes the old source when isAudioGenerated says it is
\* generated audio, instead of testing the source itself (sensitivity of C36)
SwapSteps_RevokeByFlag(c) ==
    LET audioUrl == c.urls + 1
        c1 == [c EXCEPT !.urls = audioUrl]
        c2 == IF c1.audioElement = 0 THEN c1 ELSE ElementPause(c1)
        c3 == IF c2.audioElement # 0 /\ c2.isAudioGenerated
              THEN [c2 EXCEPT !.revoked[c2.media.src] = @ + 1]
              ELSE c2
    IN  <<c1, c2, c3, NewAudio(c3, audioUrl)>>

\* the swap with the URL revoked before the old element is paused
\* (sensitivity of C28)
SwapSteps_RevokeFirst(c) ==
    LET audioUrl == c.urls + 1
        c1 == [c EXCEPT !.urls = audioUrl]
        c2 == IF c1.audioElement # 0 /\ c1.media.src > 0
              THEN [c1 EXCEPT !.revoked[c1.media.src] = @ + 1]
              ELSE c1
        c3 == IF c2.audioElement = 0 THEN c2 ELSE ElementPause(c2)
    IN  <<c1, c2, c3, NewAudio(c3, audioUrl)>>

\* the swap of the success path, statement by statement: the controller after
\* URL.createObjectURL, after audioElement.pause(), after
\* URL.revokeObjectURL and after audioElement = new Audio(audioUrl)
SwapSteps(c) ==
    LET audioUrl == c.urls + 1
        c1 == [c EXCEPT !.urls = audioUrl]
        \* clean up old audio
        c2 == IF c1.audioElement = 0 THEN c1 ELSE ElementPause(c1)
        c3 == IF c2.audioElement # 0 /\ c2.media.src > 0   \* src.startsWith('blob:')
              THEN [c2 EXCEPT !.revoked[c2.media.src] = @ + 1]
              ELSE c2
    IN  <<c1, c2, c3, NewAudio(c3, audioUrl)>>

\* the success path of generateVoice
ReplaceAudio(c) ==
    LET c4 == setupAudioEventListeners(SwapSteps(c)[4])
    IN  showToast(updateAudioStatus([c4 EXCEPT !.isAudioGenerated = TRUE]),
                  SuccessMsg, "success")

\* the error-response path showing the server's error text when there is one
\* (sensitivity of C17)
VoiceErrorResponse_ShowServerError(c, response) ==
    LET errorInfo == parseErrorResponse(response)
        body == response.body
        shown == IF body.kind = "object" /\ "error" \in DOMAIN body.obj
                 THEN showPopup(c, body.obj["error"])
                 ELSE showPopup(c, errorInfo.message)
    IN  initializeAudioPlayer(shown)

\* the error-response path of generateVoice
VoiceErrorResponse(c, response) ==
    LET errorInfo == parseErrorResponse(response)
        shown == IF errorInfo.type = "quota" THEN showPopup(c, QuotaMsg)
                 ELSE IF errorInfo.type = "auth" THEN showPopup(c, AuthMsg)
                 ELSE showPopup(c, GenericMsg)
    IN  initializeAudioPlayer(shown)

\* the catch block of generateVoice
VoiceCatch(c) == initializeAudioPlayer(showPopup(c, GenericMsg))

\* generateVoice after its fetch has settled with response
VoiceSettled(c, call) ==
    IF call.resp = FetchRejected THEN VoiceCatch(c)
    ELSE IF ~(call.resp.status \in 200..299) THEN VoiceErrorResponse(c, call.resp)
    ELSE ReplaceAudio(c)

\* togglePlayPause without its "if (!audioElement)" test: reading .paused of
\* null throws a TypeError (sensitivity of C8)
togglePlayPause_NoGuard(c, played) ==
    IF c.audioElement = 0 THEN [c EXCEPT !.thrown = TRUE]
    ELSE IF c.media.paused
    THEN IF played THEN ElementPlay(c) ELSE showPopup(c, PlayFailedMsg)
    ELSE ElementPause(c)

\* togglePlayPause deciding by the isPlaying flag instead of
\* audioElement.paused (sensitivity of C32)
togglePlayPause_ByFlag(c, played) ==
    IF c.audioElement = 0 THEN showPopup(c, NoAudioMsg)
    ELSE IF ~c.isPlaying
    THEN IF played THEN ElementPlay(c) ELSE showPopup(c, PlayFailedMsg)
    ELSE ElementPause(c)

\* togglePlayPause(); played: whether the browser lets play() go ahead
togglePlayPause(c, played) ==
    IF c.audioElement = 0 THEN showPopup(c, NoAudioMsg)
    ELSE IF c.media.paused
    THEN IF played THEN ElementPlay(c) ELSE showPopup(c, PlayFailedMsg)
    ELSE ElementPause(c)

\* stopAudio without "audioElement.currentTime = 0" (sensitivity of C22)
stopAudio_NoRewind(c) ==
    IF c.audioElement = 0 THEN c
    ELSE updateAudioStatus(
            [ElementPause(c) EXCEPT !.isPlaying = FALSE, !.audioProgress = 0])

stopAudio(c) ==
    IF c.audioElement = 0 THEN c
    ELSE updateAudioStatus(
            [ElementRewind(ElementPause(c)) EXCEPT !.isPlaying = FALSE,
                                                   !.audioProgress = 0])

\* the listeners without the "if (audioElement.duration)" test; -1 stands for
\* the NaN or Infinity the division gives (sensitivity of C9)
Listener_NoDurationCheck(c, ev) ==
    CASE ev = "ended" ->
            updateAudioStatus([c EXCEPT !.isPlaying = FALSE, !.audioProgress = 0])
      [] ev = "play" -> updateAudioStatus([c EXCEPT !.isPlaying = TRUE])
      [] ev = "pause" -> updateAudioStatus([c EXCEPT !.isPlaying = FALSE])
      [] ev = "timeupdate" ->
            [c EXCEPT !.audioProgress =
                         IF c.media.duration # 0
                         THEN (c.media.currentTime * 100) \div c.media.duration
                         ELSE -1]
      [] OTHER -> showPopup(c, MediaFailedMsg)

\* the listeners with the position not divided by the duration (sensitivity
\* of C26)
Listener_NoDivision(c, ev) ==
    CASE ev = "ended" ->
            updateAudioStatus([c EXCEPT !.isPlaying = FALSE, !.audioProgress = 0])
      [] ev = "play" -> updateAudioStatus([c EXCEPT !.isPlaying = TRUE])
      [] ev = "pause" -> updateAudioStatus([c EXCEPT !.isPlaying = FALSE])
      [] ev = "timeupdate" ->
            IF c.media.duration # 0
            THEN [c EXCEPT !.audioProgress = c.media.currentTime * 100]
            ELSE c
      [] OTHER -> showPopup(c, MediaFailedMsg)

\* the listeners with a pause listener that leaves isPlaying alone
\* (sensitivity of C30)
Listener_PauseIgnored(c, ev) ==
    CASE ev = "ended" ->
            updateAudioStatus([c EXCEPT !.isPlaying = FALSE, !.audioProgress = 0])
      [] ev = "play" -> updateAudioStatus([c EXCEPT !.isPlaying = TRUE])
      [] ev = "pause" -> updateAudioStatus(c)
      [] ev = "timeupdate" ->
            IF c.media.duration # 0
            THEN [c EXCEPT !.audioProgress =
                              (c.media.currentTime * 100) \div c.media.duration]
            ELSE c
      [] OTHER -> showPopup(c, MediaFailedMsg)

\* the listeners with an ended listener that keeps audioProgress
\* (sensitivity of C33)
Listener_EndedKeepsProgress(c, ev) ==
    CASE ev = "ended" -> updateAudioStatus([c EXCEPT !.isPlaying = FALSE])
      [] ev = "play" -> updateAudioStatus([c EXCEPT !.isPlaying = TRUE])
      [] ev = "pause" -> updateAudioStatus([c EXCEPT !.isPlaying = FALSE])
      [] ev = "timeupdate" ->
            IF c.media.duration # 0
            THEN [c EXCEPT !.audioProgress =
                              (c.media.currentTime * 100) \div c.media.duration]
            ELSE c
      [] OTHER -> showPopup(c, MediaFailedMsg)

\* the listeners attached by setupAudioEventListeners; they read the global
\* audioElement, whichever element fired the event
Listener(c, ev) ==
    CASE ev = "ended" ->
            updateAudioStatus([c EXCEPT !.isPlaying = FALSE, !.audioProgress = 0])
      [] ev = "play" -> updateAudioStatus([c EXCEPT !.isPlaying = TRUE])
      [] ev = "pause" -> updateAudioStatus([c EXCEPT !.isPlaying = FALSE])
      [] ev = "timeupdate" ->
            IF c.media.duration # 0
            THEN [c EXCEPT !.audioProgress =
                              (c.media.currentTime * 100) \div c.media.duration]
            ELSE c
      [] OTHER -> showPopup(c, MediaFailedMsg)

(***************************************************************************)
(* Upstream outcomes of the speech service used by the session model.      *)
(***************************************************************************)
UpOk == [ok |-> TRUE, statusCode |-> 0, message |-> Undefined, hasBody |-> FALSE,
         hasDetail |-> FALSE, dStatus |-> Undefined, dMessage |-> Undefined]
\* body {detail: {status: 'quota_exceeded'}}
UpQuota == [ok |-> FALSE, statusCode |-> 429, message |-> <<"Status", "code", "429">>,
            hasBody |-> TRUE, hasDetail |-> TRUE,
            dStatus |-> <<"quota_exceeded">>, dMessage |-> Undefined]
\* body {detail: {status: 'invalid_api_key', message: 'Invalid API key'}}
UpAuth == [ok |-> FALSE, statusCode |-> 401, message |-> <<"Status", "code", "401">>,
           hasBody |-> TRUE, hasDetail |-> TRUE,
           dStatus |-> <<"invalid_api_key">>,
           dMessage |-> <<"Invalid", "API", "key">>]
\* a failure without a body (a timeout, a reset connection)
UpDown == [ok |-> FALSE, statusCode |-> 0, message |-> <<"socket", "hang", "up">>,
           hasBody |-> FALSE, hasDetail |-> FALSE, dStatus |-> Undefined,
           dMessage |-> Undefined]
\* body {detail: {status: 'voice_not_found', message: 'Voice not found'}}
UpVendor == [ok |-> FALSE, statusCode |-> 400, message |-> <<"Status", "code", "400">>,
             hasBody |-> TRUE, hasDetail |-> TRUE,
             dStatus |-> <<"voice_not_found">>,
             dMessage |-> <<"Voice", "not", "found">>]
SessionUpstreams == {UpOk, UpQuota, UpAuth, UpDown, UpVendor}

\* 'Please enter a story idea first!'
NoIdeaMsg == <<"Please", "enter", "a", "story", "idea", "first">>
\* error.message of a failure of the upstream text service
StoryUpstreamMessage == <<"Rate", "limit", "reached", "for", "gpt-3.5-turbo">>

\* the catch block of the generate-story handler
storyCatchBlock(upMessage) ==
    [status |-> 500,
     body |-> JsonObject([error |-> <<"Failed", "to", "generate", "story">>
                                      \o upMessage]),
     called |-> TRUE]

\* generateStory on an error response: throw new Error(error.error ||
\* 'Failed to generate story'), caught, showError(error.message)
StoryErrorShown(response) ==
    LET error == response.body.obj
    IN  IF "error" \in DOMAIN error /\ error["error"] # <<>>
        THEN error["error"]
        ELSE <<"Failed", "to", "generate", "story">>

\* the banner after the upstream text service failed
StoryFailedMsg == StoryErrorShown(storyCatchBlock(StoryUpstreamMessage))
\* the message of the TypeError fetch rejects with
FetchFailedMsg == <<"Failed", "to", "fetch">>

(***************************************************************************)
(* Init and the actions.  Like the toast, the error banner is hidden by    *)
(* its own timer (setTimeout in showError) before the next handler runs.   *)
(***************************************************************************)
NoProbe == [response |-> NoResponse, info |-> [message |-> <<>>, type |-> "none"]]

SessionInit ==
    /\ currentStory = 0
    /\ audioElement = 0
    /\ isGenerating = FALSE
    /\ isAudioGenerated = FALSE
    /\ isPlaying = FALSE
    /\ audioProgress = 0
    /\ media = NoMedia
    /\ events = <<>>
    /\ created = 0
    /\ urls = 0
    /\ revoked = [u \in 0..MaxBlobs |-> 0]
    /\ audioStatus = ""
    /\ popup = NoPopup
    /\ errorMessage = <<>>
    /\ generateBtnDisabled = FALSE
    /\ voiceBtnDisabled = FALSE
    /\ storyCall = "idle"
    /\ voiceCalls = <<>>
    /\ thrown = FALSE

Init == SessionInit /\ probe = NoProbe

storyVars == <<currentStory, isGenerating, generateBtnDisabled, storyCall>>
voiceVars == <<voiceBtnDisabled, voiceCalls>>

\* setButtonLoading(button, isLoading) that leaves the button enabled
\* (sensitivity of C24)
setButtonLoading_NeverDisabled(isLoading) == FALSE

\* setButtonLoading(button, isLoading): the value it gives button.disabled
setButtonLoading(isLoading) == isLoading

\* generateStory from its start to the fetch: whether the request is sent,
\* and the error banner
generateStory(hasIdea, generating) ==
    IF ~hasIdea THEN [fetch |-> FALSE, error |-> NoIdeaMsg]
    ELSE IF generating THEN [fetch |-> FALSE, error |-> <<>>]
    ELSE [fetch |-> TRUE, error |-> <<>>]

\* generateStory up to its fetch; byKey: Ctrl+Enter in the textarea rather than
\* a click on the (enabled) button
GenerateStory(hasIdea, byKey) ==
    /\ byKey \/ ~generateBtnDisabled
    /\ LET g == generateStory(hasIdea, isGenerating)
       IN  /\ errorMessage' = g.error
           /\ IF g.fetch
              THEN /\ isGenerating' = TRUE
                   /\ generateBtnDisabled' = setButtonLoading(TRUE)
                   /\ storyCall' = "fetch"
                   /\ UNCHANGED currentStory
              ELSE UNCHANGED storyVars
    /\ SetCtl(Ctl)
    /\ UNCHANGED <<voiceVars, probe>>

\* generateStory whose reset is the last statement of the try block instead
\* of a finally block: skipped when the request fails (sensitivity of C35)
generateStoryFinally_OnSuccessOnly(outcome) ==
    IF outcome = "ok"
    THEN [isGenerating |-> FALSE, disabled |-> setButtonLoading(FALSE)]
    ELSE [isGenerating |-> TRUE, disabled |-> setButtonLoading(TRUE)]

\* the finally block of generateStory, run however the try block ended:
\* isGenerating and generateBtn.disabled after it
generateStoryFinally(outcome) ==
    [isGenerating |-> FALSE, disabled |-> setButtonLoading(FALSE)]

\* generateStory after its fetch has settled
StorySettle(outcome) ==
    /\ storyCall = "fetch"
    /\ IF outcome = "ok"
       THEN /\ currentStory < MaxStories
            /\ currentStory' = currentStory + 1
            /\ SetCtl([initializeAudioPlayer(Ctl) EXCEPT !.isAudioGenerated = FALSE])
            /\ errorMessage' = <<>>
       ELSE /\ errorMessage' = (IF outcome = "error" THEN StoryFailedMsg
                                ELSE FetchFailedMsg)
            /\ SetCtl(Ctl)
            /\ UNCHANGED currentStory
    /\ isGenerating' = generateStoryFinally(outcome).isGenerating
    /\ generateBtnDisabled' = generateStoryFinally(outcome).disabled
    /\ storyCall' = "idle"
    /\ UNCHANGED <<voiceVars, probe>>

\* generateVoice without its "if (!currentStory)" test (sensitivity of C27)
generateVoice_NoPreflight(c, story, disabled) ==
    [ctl |-> c, fetch |-> TRUE, disabled |-> setButtonLoading(TRUE)]

\* generateVoice from its start to the fetch: the controller, whether the
\* request is sent, and voiceBtn.disabled
generateVoice(c, story, disabled) ==
    IF story = 0
    THEN [ctl |-> showPopup(c, NoStoryMsg), fetch |-> FALSE,
          disabled |-> disabled]
    ELSE [ctl |-> c, fetch |-> TRUE, disabled |-> setButtonLoading(TRUE)]

\* generateVoice up to its fetch (a click on the enabled voice button)
GenerateVoice ==
    /\ ~voiceBtnDisabled
    /\ LET g == generateVoice(Ctl, currentStory, voiceBtnDisabled)
       IN  /\ SetCtl(g.ctl)
           /\ voiceBtnDisabled' = g.disabled
           /\ voiceCalls' = IF g.fetch
                            THEN Append(voiceCalls, [text |-> currentStory,
                                                     resp |-> NoResponse])
                            ELSE voiceCalls
    /\ errorMessage' = <<>>
    /\ UNCHANGED <<storyVars, probe>>

\* the response the fetch of call settles with: the handler's answer to the
\* request under upstream outcome up, or a rejected fetch when the server
\* cannot be reached
ResponseTo(call, up, reachable) ==
    IF reachable
    THEN handler([method |-> "POST", body |-> "json", text |-> call.text],
                 [key |-> TRUE], up)
    ELSE FetchRejected

\* generateVoice from the settled fetch to its end (finally included).  The
\* server keeps no state, so its answer is drawn when the fetch settles
VoiceSettle(i, up, reachable) ==
    /\ i \in 1..Len(voiceCalls)
    /\ up.ok /\ reachable => urls < MaxBlobs
    /\ LET c == VoiceSettled(Ctl, [voiceCalls[i] EXCEPT
                                     !.resp = ResponseTo(voiceCalls[i], up, reachable)])
       IN  /\ Len(c.events) <= MaxQueue
           /\ SetCtl(c)
    /\ voiceBtnDisabled' = setButtonLoading(FALSE)
    /\ voiceCalls' = [j \in 1..(Len(voiceCalls) - 1) |->
                         IF j < i THEN voiceCalls[j] ELSE voiceCalls[j + 1]]
    /\ errorMessage' = <<>>
    /\ UNCHANGED <<storyVars, probe>>

\* a click on the play button
TogglePlayPause(played) ==
    /\ LET c == togglePlayPause(Ctl, played)
       IN  /\ Len(c.events) <= MaxQueue
           /\ SetCtl(c)
    /\ errorMessage' = <<>>
    /\ UNCHANGED <<storyVars, voiceVars, probe>>

\* a click on the stop button
StopAudio ==
    /\ LET c == stopAudio(Ctl)
       IN  /\ Len(c.events) <= MaxQueue
           /\ SetCtl(c)
    /\ errorMessage' = <<>>
    /\ UNCHANGED <<storyVars, voiceVars, probe>>

\* the browser has loaded the metadata of the current element
MediaLoaded ==
    /\ audioElement # 0
    /\ media.duration = 0
    /\ ~media.error
    /\ SetCtl([Ctl EXCEPT !.media.duration = MaxTime])
    /\ errorMessage' = <<>>
    /\ UNCHANGED <<storyVars, voiceVars, probe>>

\* the media clock advances; at the end of the clip the element pauses itself
MediaTick ==
    /\ audioElement # 0
    /\ ~media.paused /\ ~media.error /\ media.duration # 0
    /\ LET t == media.currentTime + 1
           atEnd == t >= media.duration
           c == Queue([Ctl EXCEPT !.media.currentTime = t,
                                  !.media.ended = atEnd,
                                  !.media.paused = atEnd],
                      IF atEnd THEN <<"timeupdate", "pause", "ended">>
                      ELSE <<"timeupdate">>)
       IN  /\ Len(c.events) <= MaxQueue
           /\ SetCtl(c)
    /\ errorMessage' = <<>>
    /\ UNCHANGED <<storyVars, voiceVars, probe>>

\* decoding or fetching the current element's media fails
MediaError ==
    /\ audioElement # 0
    /\ ~media.error
    /\ LET c == Queue([Ctl EXCEPT !.media.error = TRUE], <<"error">>)
       IN  /\ Len(c.events) <= MaxQueue
           /\ SetCtl(c)
    /\ errorMessage' = <<>>
    /\ UNCHANGED <<storyVars, voiceVars, probe>>

\* the browser delivers the oldest queued event to its listener
DeliverEvent ==
    /\ events # <<>>
    /\ SetCtl(Listener([Ctl EXCEPT !.events = Tail(events)], Head(events)))
    /\ errorMessage' = <<>>
    /\ UNCHANGED <<storyVars, voiceVars, probe>>

Next ==
    \/ \E hasIdea \in BOOLEAN, byKey \in BOOLEAN : GenerateStory(hasIdea, byKey)
    \/ \E outcome \in {"ok", "error", "rejected"} : StorySettle(outcome)
    \/ GenerateVoice
    \/ \E i \in 1..Len(voiceCalls), up \in SessionUpstreams, reachable \in BOOLEAN :
          VoiceSettle(i, up, reachable)
    \/ \E played \in BOOLEAN : TogglePlayPause(played)
    \/ StopAudio
    \/ MediaLoaded
    \/ MediaTick
    \/ MediaError
    \/ DeliverEvent

Spec == Init /\ [][Next]_vars

\* every fetch settles: the browser resolves or rejects it in the end, and the
\* continuation of the async function then runs

(***************************************************************************)
(* The two generation requests with their ends.  isGenerating and the     *)
(* disabled state of the two buttons are written by generateStory and     *)
(* generateVoice only; a started fetch always settles (the promise        *)
(* resolves or rejects), which is the fairness of the two settle steps.    *)
(***************************************************************************)
NextLive ==
    \/ \E hasIdea \in BOOLEAN, byKey \in BOOLEAN : GenerateStory(hasIdea, byKey)
    \/ \E outcome \in {"ok", "error", "rejected"} : StorySettle(outcome)
    \/ GenerateVoice
    \/ \E i \in 1..Len(voiceCalls), up \in SessionUpstreams, reachable \in BOOLEAN :
          VoiceSettle(i, up, reachable)

SpecLive ==
    /\ Init
    /\ [][NextLive]_vars
    /\ WF_vars(\E outcome \in {"ok", "error", "rejected"} : StorySettle(outcome))
    /\ WF_vars(\E i \in 1..Len(voiceCalls), up \in SessionUpstreams,
                  reachable \in BOOLEAN : VoiceSettle(i, up, reachable))

(***************************************************************************)
(* parseErrorResponse on its own: a response is drawn, then classified.    *)
(***************************************************************************)
ProbeStatuses == {400, 401, 429, 500}

ProbeTexts == { <<"Quota", "exceeded">>,
                <<"Unauthorized">>,
                <<"Unauthorized", "quota", "exceeded">>,
                <<"status401", "out", "of", "credits">>,
                SrvFailedMsg }

ProbeTypes == {Undefined, <<"quota_exceeded">>, <<"auth_error">>, <<"network">>}

\* bodies of an error response: none, text that is not JSON, and the JSON
\* values null, "text", {error: text} and {error: text, errorType: type}
ProbeBodies ==
    {[kind |-> "absent"], [kind |-> "null"]}
      \cup {[kind |-> "text", text |-> t] : t \in ProbeTexts}
      \cup {[kind |-> "string", text |-> t] : t \in ProbeTexts}
      \cup {JsonObject(IF ty = Undefined THEN [error |-> t]
                       ELSE [error |-> t, errorType |-> ty]) :
              t \in ProbeTexts, ty \in ProbeTypes}

InitClassify ==
    /\ SessionInit
    /\ \E st \in ProbeStatuses, b \in ProbeBodies :
          probe = [response |-> [status |-> st, body |-> b, called |-> TRUE],
                   info |-> NoProbe.info]

\* const errorInfo = await parseErrorResponse(response)
Classify ==
    /\ probe.info.type = "none"
    /\ probe' = [probe EXCEPT !.info = parseErrorResponse(probe.response)]
    /\ UNCHANGED <<currentStory, audioElement, isGenerating, isAudioGenerated,
                   isPlaying, audioProgress, media, events, created, urls,
                   revoked, audioStatus, popup, errorMessage,
                   generateBtnDisabled, voiceBtnDisabled, storyCall,
                   voiceCalls, thrown>>

NextClassify == Classify

SpecClassify == InitClassify /\ [][NextClassify]_vars

(***************************************************************************)
(* parseErrorResponse called twice on one Response object.  Reading the   *)
(* body (response.json()) uses it up: a second read rejects.               *)
(***************************************************************************)
\* the Response object after response.json() has read its body
BodyRead(response) ==
    IF response.body.kind = "absent" THEN response
    ELSE [response EXCEPT !.body = [kind |-> "used"]]

InitRepeat ==
    /\ SessionInit
    /\ \E st \in ProbeStatuses, b \in ProbeBodies :
          LET r == [status |-> st, body |-> b, called |-> TRUE]
          IN  probe = [response |-> r, object |-> r,
                       info |-> NoProbe.info, again |-> NoProbe.info]

\* the first parseErrorResponse(response)
ClassifyFirst ==
    /\ probe.info.type = "none"
    /\ probe' = [probe EXCEPT !.info = parseErrorResponse(probe.object),
                              !.object = BodyRead(probe.object)]
    /\ UNCHANGED <<currentStory, audioElement, isGenerating, isAudioGenerated,
                   isPlaying, audioProgress, media, events, created, urls,
                   revoked, audioStatus, popup, errorMessage,
                   generateBtnDisabled, voiceBtnDisabled, storyCall,
                   voiceCalls, thrown>>

\* a second parseErrorResponse(response), on the same object
ClassifyAgain ==
    /\ probe.info.type # "none"
    /\ probe.again.type = "none"
    /\ probe' = [probe EXCEPT !.again = parseErrorResponse(probe.object),
                              !.object = BodyRead(probe.object)]
    /\ UNCHANGED <<currentStory, audioElement, isGenerating, isAudioGenerated,
                   isPlaying, audioProgress, media, events, created, urls,
                   revoked, audioStatus, popup, errorMessage,
                   generateBtnDisabled, voiceBtnDisabled, storyCall,
                   voiceCalls, thrown>>

NextRepeat == ClassifyFirst \/ ClassifyAgain

SpecRepeat == InitRepeat /\ [][NextRepeat]_vars

(***************************************************************************)
(* The generate-audio handler on its own: a request, an environment and an *)
(* upstream outcome are drawn, then the handler answers.                   *)
(***************************************************************************)
\* the failures textToSpeech.convert can reject with: error.statusCode,
\* error.message and error.body (none, without detail, or with a detail)
HandlerFailures ==
    { [ok |-> FALSE, statusCode |-> sc, message |-> msg,
       hasBody |-> shape # "none", hasDetail |-> shape = "detail",
       dStatus |-> (IF shape = "detail" THEN ds ELSE Undefined),
       dMessage |-> (IF shape = "detail" THEN dm ELSE Undefined)] :
        sc \in {0, 401, 429, 500},
        msg \in {Undefined, <<"Status", "code", "401">>, <<"socket", "hang", "up">>},
        shape \in {"none", "nodetail", "detail"},
        ds \in {Undefined, <<"quota_exceeded">>, <<"invalid_api_key">>},
        dm \in {Undefined, <<"Invalid", "API", "key">>,
                <<"Not", "enough", "Credits">>} }

HandlerUpstreams == {UpOk} \cup HandlerFailures

InitHandler ==
    /\ SessionInit
    /\ \E method \in {"POST", "GET", "OPTIONS"},
          body \in {<<"json", 0>>, <<"json", 1>>, <<"none", 0>>, <<"garbage", 0>>},
          key \in BOOLEAN, up \in HandlerUpstreams :
          probe = [req |-> [method |-> method, body |-> body[1], text |-> body[2]],
                   env |-> [key |-> key],
                   up |-> up,
                   response |-> NoResponse,
                   netlify |-> NoResponse,
                   info |-> NoProbe.info]

\* the platform calls handler(req, res)
Serve ==
    /\ probe.response = NoResponse
    /\ probe' = [probe EXCEPT !.response = handler(probe.req, probe.env, probe.up)]
    /\ UNCHANGED <<currentStory, audioElement, isGenerating, isAudioGenerated,
                   isPlaying, audioProgress, media, events, created, urls,
                   revoked, audioStatus, popup, errorMessage,
                   generateBtnDisabled, voiceBtnDisabled, storyCall,
                   voiceCalls, thrown>>

\* Netlify calls exports.handler(event, context)
ServeNetlify ==
    /\ probe.netlify = NoResponse
    /\ probe' = [probe EXCEPT !.netlify = netlifyHandler(probe.req, probe.env, probe.up)]
    /\ UNCHANGED <<currentStory, audioElement, isGenerating, isAudioGenerated,
                   isPlaying, audioProgress, media, events, created, urls,
                   revoked, audioStatus, popup, errorMessage,
                   generateBtnDisabled, voiceBtnDisabled, storyCall,
                   voiceCalls, thrown>>

NextHandler == Serve \/ ServeNetlify

SpecHandler == InitHandler /\ [][NextHandler]_vars

(***************************************************************************)
(* The three deployments of the generate-audio endpoint side by side: one  *)
(* request, environment and upstream outcome, answered by the Vercel       *)
(* handler, the Netlify function and the Express route.                    *)
(***************************************************************************)
InitVariants ==
    /\ SessionInit
    /\ \E method \in {"POST", "GET", "OPTIONS"},
          body \in {<<"json", 0>>, <<"json", 1>>, <<"none", 0>>, <<"garbage", 0>>},
          key \in BOOLEAN, up \in HandlerUpstreams :
          probe = [req |-> [method |-> method, body |-> body[1], text |-> body[2]],
                   env |-> [key |-> key],
                   up |-> up,
                   response |-> NoResponse,
                   netlify |-> NoResponse,
                   express |-> NoResponse,
                   info |-> NoProbe.info]

\* Express calls the route of app.post('/api/generate-audio')
ServeExpress ==
    /\ probe.express = NoResponse
    /\ probe' = [probe EXCEPT !.express = expressRoute(probe.req, probe.env, probe.up)]
    /\ UNCHANGED <<currentStory, audioElement, isGenerating, isAudioGenerated,
                   isPlaying, audioProgress, media, events, created, urls,
                   revoked, audioStatus, popup, errorMessage,
                   generateBtnDisabled, voiceBtnDisabled, storyCall,
                   voiceCalls, thrown>>

NextVariants == Serve \/ ServeNetlify \/ ServeExpress

SpecVariants == InitVariants /\ [][NextVariants]_vars

(***************************************************************************)
(* Properties.                                                             *)
(***************************************************************************)
\* the first pending generateVoice call fails upstream with
\* {detail: {status: 'quota_exceeded'}}
QuotaResponse == handler([method |-> "POST", body |-> "json", text |-> currentStory],
                         [key |-> TRUE], UpQuota)

\* C1: when the fallback clip created for the story is playing and the voice
\* generation fails upstream with body {detail: {status: 'quota_exceeded'}},
\* the server answers 429, the client classifies the failure as quota, the
\* controller is still playing the same fallback element, and the message
\* shown is the fixed quota string, not the upstream text.
C1_QuotaScenario ==
    [][ ( /\ isPlaying /\ ~media.paused
          /\ media.src = FALLBACK_AUDIO_URL
          /\ VoiceSettle(1, UpQuota, TRUE) )
        => /\ QuotaResponse.status = 429
           /\ parseErrorResponse(QuotaResponse).type = "quota"
           /\ isPlaying' /\ ~media'.paused
           /\ audioElement' = audioElement
           /\ media' = media
           /\ popup'.message = QuotaMsg
           /\ popup'.message # UpQuota.message
           /\ ~Includes(popup'.message, "429") ]_vars

\* C1 (witness): the quota notice is up while the fallback clip, the only
\* element ever created, is still playing.
C1_Witness ==
    /\ popup = [message |-> QuotaMsg, type |-> "warning"]
    /\ isPlaying /\ ~media.paused
    /\ media.src = FALLBACK_AUDIO_URL
    /\ created = 1

\* the step answers a pending generateVoice call
Answered == Len(voiceCalls') < Len(voiceCalls)

\* a generateVoice call settles with a failure: an error response, or a
\* rejected fetch
VoiceFails(i) ==
    \E up \in SessionUpstreams, reachable \in BOOLEAN :
        /\ ~(up.ok /\ reachable)
        /\ VoiceSettle(i, up, reachable)

\* C2: handling a failed voice generation (an error response of any kind or a
\* rejected fetch) leaves audioElement, its source and attributes,
\* isAudioGenerated, isPlaying and audioProgress as they were; no element is
\* created and nothing is revoked.
C2_FailureKeepsResource ==
    [][ (Answered /\ \E i \in 1..Len(voiceCalls) : VoiceFails(i))
        => UNCHANGED <<audioElement, media, isAudioGenerated, isPlaying,
                       audioProgress, created, urls, revoked>> ]_vars

\* C2 (witness): a failure notice is up and the generated audio is still the
\* current resource.
C2_Witness ==
    /\ popup.message \in {QuotaMsg, AuthMsg, GenericMsg}
    /\ media.src > 0
    /\ isAudioGenerated
    /\ created = 2

\* C3: as soon as the success path of generateVoice has run, isPlaying is
\* false, the current resource is the new audio with isAudioGenerated true,
\* and audioProgress is 0.
C3_SuccessGivesReady ==
    [][ (Answered /\ \E i \in 1..Len(voiceCalls) : VoiceSettle(i, UpOk, TRUE))
        => /\ ~isPlaying'
           /\ audioProgress' = 0
           /\ isAudioGenerated'
           /\ media'.src = urls' /\ urls' = urls + 1
           /\ media'.paused ]_vars

\* C4: every blob URL created so far has been revoked exactly once if it has
\* been superseded and not at all while it is the current source; the
\* fallback URL is never revoked.
C4_RevokedOnceWhenSuperseded ==
    /\ revoked[FALLBACK_AUDIO_URL] = 0
    /\ \A u \in 1..MaxBlobs :
          revoked[u] = IF u <= urls /\ media.src # u THEN 1 ELSE 0
    /\ urls > 0 => media.src = urls

\* C4 (witness): a second audio has superseded the first.
C4_Witness ==
    /\ urls >= 2
    /\ media.src = urls
    /\ revoked[1] = 1

\* C5: a voice result for a story that is no longer the current one is
\* discarded: it does not replace the audio resource.
C5_StaleResultDiscarded ==
    [][ ( /\ Answered
          /\ \E i \in 1..Len(voiceCalls) :
                /\ voiceCalls[i].text # currentStory
                /\ VoiceSettle(i, UpOk, TRUE) )
        => UNCHANGED <<audioElement, media, isAudioGenerated>> ]_vars

\* C6: once a story has been generated, audioElement is non-null in every
\* reachable state.
C6_ResourceAfterFirstStory == currentStory # 0 => audioElement # 0

\* C6 (witness): after a story, a successful voice generation and a media
\* error, a failed voice generation has been handled and the element is there.
C6_Witness ==
    /\ currentStory # 0
    /\ audioElement # 0
    /\ urls > 0
    /\ media.error
    /\ popup.message = GenericMsg

\* C7: initializeAudioPlayer called while an audio resource exists creates no
\* element, attaches no listener and leaves audioElement, isAudioGenerated,
\* isPlaying and audioProgress unchanged; called twice in a row it gives the
\* state one call gives.
C7_InitializeIdempotent ==
    LET once == initializeAudioPlayer(Ctl)
        twice == initializeAudioPlayer(once)
    IN  /\ twice = once
        /\ audioElement # 0 =>
              /\ once.created = created
              /\ once.media = media
              /\ once.audioElement = audioElement
              /\ once.isAudioGenerated = isAudioGenerated
              /\ once.isPlaying = isPlaying
              /\ once.audioProgress = audioProgress
              /\ once.events = events

\* C7 (witness): initializeAudioPlayer has run on a generated audio (the
\* error path of generateVoice calls it) that is playing with progress made.
C7_Witness ==
    /\ popup.message = AuthMsg
    /\ isAudioGenerated /\ media.src > 0
    /\ isPlaying /\ audioProgress > 0
    /\ media.listeners = 1

\* C8: with no audio resource (audioElement is null) togglePlayPause changes no
\* controller state and throws nothing, it only shows the 'Audio not
\* available' notice; stopAudio changes nothing at all.
C8_IdleCommandsAreNoOps ==
    [][ ( /\ audioElement = 0
          /\ \/ \E played \in BOOLEAN : TogglePlayPause(played)
             \/ StopAudio )
        => /\ UNCHANGED <<currentStory, audioElement, isGenerating,
                          isAudioGenerated, isPlaying, audioProgress, media,
                          events, created, urls, revoked, audioStatus,
                          generateBtnDisabled, voiceBtnDisabled, storyCall,
                          voiceCalls, thrown>>
           /\ ~thrown'
           /\ popup' \in {NoPopup, [message |-> NoAudioMsg, type |-> "error"]}
           /\ stopAudio(Ctl) = Ctl
           /\ \A played \in BOOLEAN :
                 togglePlayPause(Ctl, played)
                    = [Ctl EXCEPT !.popup = [message |-> NoAudioMsg,
                                             type |-> "error"]] ]_vars

\* C8 (witness): the 'Audio not available' notice is up and there is still no
\* audio resource.
C8_Witness ==
    /\ audioElement = 0
    /\ popup.message = NoAudioMsg
    /\ ~thrown

\* C9: a timeupdate delivered while the current element's duration is 0
\* (unknown) does not change audioProgress.
C9_NoProgressWithoutDuration ==
    [][ ( /\ events # <<>>
          /\ Head(events) = "timeupdate"
          /\ media.duration = 0
          /\ DeliverEvent )
        => audioProgress' = audioProgress ]_vars

\* C9 (witness): a timeupdate is about to be delivered while the current
\* element's duration is unknown and audioProgress is not 0.
C9_Witness ==
    /\ events # <<>>
    /\ Head(events) = "timeupdate"
    /\ media.duration = 0
    /\ audioProgress > 0

\* the text of a response body, whether it is JSON or not
BodyText(body) ==
    CASE body.kind \in {"text", "string"} -> body.text
      [] body.kind = "object" -> JSONStringify(body)
      [] OTHER -> <<>>

\* the body carries a quota signal
HasQuotaSignal(response) ==
    \/ ErrorTypeOf(response.body) = <<"quota_exceeded">>
    \/ \E kw \in {"quota_exceeded", "quota", "credit", "token"} :
          Includes(ToLowerCase(BodyText(response.body)), kw)

\* C10: every error response whose body contains a quota signal is classified
\* as 'quota', whatever authentication signals it also carries.
C10_QuotaBeforeAuth ==
    (probe.info.type # "none" /\ HasQuotaSignal(probe.response))
        => probe.info.type = "quota"

\* the handler has answered an upstream failure
ServedFailure ==
    /\ probe.response # NoResponse
    /\ probe.response.called
    /\ ~probe.up.ok

\* the upstream failure carries a quota signal in body.detail
UpQuotaSignal(up) == up.hasBody /\ up.hasDetail /\ IsQuotaDetail(up)

\* the upstream failure carries an authentication signal
UpAuthSignal(up) == IsAuthError(up)

\* C11: an upstream failure that carries both a quota signal and an
\* authentication signal is answered as quota: status 429, errorType
\* 'quota_exceeded'.
C11_ServerQuotaBeforeAuth ==
    (ServedFailure /\ UpQuotaSignal(probe.up) /\ UpAuthSignal(probe.up))
        => /\ probe.response.status = 429
           /\ ErrorTypeOf(probe.response.body) = <<"quota_exceeded">>

\* parseErrorResponse has returned
Classified == probe.info.type # "none"

\* C12: every error response with status 429 is classified as 'quota',
\* whatever its body (JSON of any shape, JSON null, absent, or text that is
\* not JSON).
C12_Status429IsQuota ==
    (Classified /\ probe.response.status = 429) => probe.info.type = "quota"

\* C13: every error response with status 401 whose body carries no quota
\* keyword is classified as 'auth', whether the body is JSON, absent or
\* unparseable.
C13_Status401IsAuth ==
    (Classified /\ probe.response.status = 401 /\ ~HasQuotaSignal(probe.response))
        => probe.info.type = "auth"

\* C14: parseErrorResponse always returns (it never rejects), with exactly one
\* of the three types and that type's message; status 500 with an absent or
\* non-JSON body gives 'network'.
C14_ClassificationTotal ==
    Classified =>
        /\ probe.info \in { [message |-> QuotaMsg, type |-> "quota"],
                            [message |-> AuthMsg, type |-> "auth"],
                            [message |-> GenericMsg, type |-> "network"] }
        /\ (probe.response.status = 500
              /\ probe.response.body.kind \in {"absent", "text"})
               => probe.info.type = "network"

\* C14 (witness): a response with status 500 and a body that is not JSON has
\* been classified as 'network'.
C14_Witness ==
    /\ Classified
    /\ probe.response.status = 500
    /\ probe.response.body.kind = "text"
    /\ probe.info.type = "network"

\* C15: classifying the same failure twice, the second time on the same
\* response object, gives the same type and message both times.
C15_ClassificationRepeatable ==
    probe.again.type # "none" => probe.again = probe.info

\* the handler has answered with a failure status
ServedError ==
    /\ probe.response # NoResponse
    /\ probe.response.status >= 400

\* the (errorType, status) pairs of the handler's failure responses
StatusTable ==
    { <<"quota_exceeded", 429>>, <<"auth_error", 401>>, <<"validation", 400>>,
      <<"configuration", 500>>, <<"network", 500>> }

\* the pair of a response lies in the table
InStatusTable(response) ==
    \E pair \in StatusTable :
        /\ ErrorTypeOf(response.body) = <<pair[1]>>
        /\ response.status = pair[2]

\* C16: in every failure response of the handler the pair (errorType, status)
\* is one of quota_exceeded/429, auth_error/401, validation/400,
\* configuration/500, network/500.
C16_StatusByErrorType == ServedError => InStatusTable(probe.response)

\* C16 (amended): every failure response of the handler that carries an
\* errorType has its pair in the table, whatever status the upstream
\* returned; the only failure response without an errorType is the 405 that
\* answers a method other than POST and OPTIONS.
C16_StatusByErrorTypeAmended ==
    ServedError =>
        IF ErrorTypeOf(probe.response.body) = Undefined
        THEN /\ probe.response.status = 405
             /\ probe.req.method \notin {"POST", "OPTIONS"}
             /\ ~probe.response.called
        ELSE InStatusTable(probe.response)

\* C16 (witness): an upstream failure with status code 500 has been answered
\* with 429 and errorType 'quota_exceeded'.
C16_Witness ==
    /\ ServedFailure
    /\ probe.up.statusCode = 500
    /\ probe.response.status = 429
    /\ ErrorTypeOf(probe.response.body) = <<"quota_exceeded">>

\* the client's fixed failure message for a classified type
FixedMessage(type) ==
    CASE type = "quota" -> QuotaMsg
      [] type = "auth" -> AuthMsg
      [] OTHER -> GenericMsg

\* the texts a response and the upstream failure behind it carry
ServerTexts(response, up) ==
    {up.message, up.dMessage}
      \cup (IF response.body.kind = "object"
            THEN {response.body.obj[k] : k \in DOMAIN response.body.obj}
            ELSE {})

\* C17: whenever a generateVoice call is pending, each way it can fail (an
\* error response for any upstream failure, or a rejected fetch) makes
\* generateVoice show the client's fixed string for the classified type (the
\* generic one when the fetch was rejected), which is none of the texts of
\* the server's response or of the upstream failure.
C17_FixedFailureMessages ==
    \A i \in 1..Len(voiceCalls), up \in SessionUpstreams, reachable \in BOOLEAN :
        ~(up.ok /\ reachable) =>
            LET response == ResponseTo(voiceCalls[i], up, reachable)
                type == IF reachable THEN parseErrorResponse(response).type
                        ELSE "network"
                shown == VoiceSettled(Ctl, [voiceCalls[i] EXCEPT !.resp = response]).popup
            IN  /\ shown.message = FixedMessage(type)
                /\ shown.message \in {QuotaMsg, AuthMsg, GenericMsg}
                /\ shown.message \notin ServerTexts(response, up)

\* C17 (witness): the generic notice is up after a failure whose response
\* carried the vendor's text, with the fallback clip still loaded.
C17_Witness ==
    /\ popup.message = GenericMsg
    /\ popup.type = "error"
    /\ currentStory # 0
    /\ media.src = FALLBACK_AUDIO_URL
    /\ voiceCalls = <<>>

\* the server's fixed 'error' string for an errorType
ServerMessage(errorType) ==
    CASE errorType = <<"quota_exceeded">> -> SrvQuotaMsg
      [] errorType = <<"auth_error">> -> SrvAuthMsg
      [] errorType = <<"validation">> -> SrvTextRequired
      [] errorType = <<"configuration">> -> SrvConfigMsg
      [] errorType = <<"network">> -> SrvFailedMsg
      [] OTHER -> SrvMethodMsg

\* C18: the 'error' field of every failure response of the handler is the
\* fixed string of its errorType ('Failed to generate audio' for 'network',
\* ...), never the upstream's message text.
C18_FixedServerMessages ==
    ServedError =>
        /\ probe.response.body.obj["error"]
              = ServerMessage(ErrorTypeOf(probe.response.body))
        /\ probe.response.body.obj["error"] \notin {probe.up.message, probe.up.dMessage}

\* sub occurs in text as a run of consecutive words
ContainsText(text, sub) ==
    \E i \in 0..(Len(text) - Len(sub)) : SubSeq(text, i + 1, i + Len(sub)) = sub

\* C19: the message generateStory displays never contains the error message
\* of the upstream text service.
C19_NoUpstreamTextInStoryError ==
    ~ContainsText(errorMessage, StoryUpstreamMessage)

\* the response r to the drawn request was produced before any upstream call
\* where the key is absent or the text is empty or missing; configuration and
\* validation answers have their status and come from no upstream call
PreFlight(r) ==
    LET errorType == ErrorTypeOf(r.body)
        noText == probe.req.body # "json" \/ probe.req.text = 0
        post == probe.req.method = "POST"
    IN  /\ (~probe.env.key \/ noText) => ~r.called
        /\ (post /\ ~probe.env.key)
              => (errorType = <<"configuration">> /\ r.status = 500)
        /\ (post /\ probe.env.key /\ probe.req.body = "json" /\ probe.req.text = 0)
              => (errorType = <<"validation">> /\ r.status = 400)
        /\ errorType \in {<<"configuration">>, <<"validation">>} => ~r.called
        /\ r.called => (probe.env.key /\ ~noText /\ post)

\* C20: in the Vercel handler and in the Netlify function, when the API key
\* is absent (answer: configuration, 500) or the request text is empty or
\* missing (answer: validation, 400) the upstream call is not made, and no
\* answer that followed an upstream call has errorType configuration or
\* validation.
C20_PreFlightBeforeUpstream ==
    /\ probe.response # NoResponse => PreFlight(probe.response)
    /\ probe.netlify # NoResponse => PreFlight(probe.netlify)

\* C20 (witness): a POST with an empty text, the key set and a failing
\* upstream has been answered by both handlers with validation, the upstream
\* not having been called.
C20_Witness ==
    /\ probe.response # NoResponse /\ probe.netlify # NoResponse
    /\ probe.req = [method |-> "POST", body |-> "json", text |-> 0]
    /\ probe.env.key
    /\ ~probe.up.ok
    /\ ErrorTypeOf(probe.response.body) = <<"validation">>
    /\ ErrorTypeOf(probe.netlify.body) = <<"validation">>
    /\ ~probe.response.called /\ ~probe.netlify.called

\* the playback engine reports a failure during playback, and no other media
\* event awaits delivery: the error event of an element that is playing
\* reaches its listener, or play() is rejected
PlaybackFails ==
    \/ /\ events = <<"error">>
       /\ ~media.paused
       /\ DeliverEvent
    \/ /\ events = <<>>
       /\ audioElement # 0
       /\ media.paused
       /\ TogglePlayPause(FALSE)

\* C21: when the playback engine reports a media error during playback (the
\* element's error event, or a rejected play request), the controller ends up
\* Ready (isPlaying false, label not 'Playing...'), the current resource is
\* kept and a generic playback-failed notice is shown.
C21_MediaErrorGivesReady ==
    [][ PlaybackFails
        => /\ ~isPlaying'
           /\ audioStatus' # "Playing..."
           /\ audioElement' = audioElement
           /\ media'.src = media.src
           /\ popup'.message \in {MediaFailedMsg, PlayFailedMsg} ]_vars

\* the controller once every media event pending in c has reached its
\* listener, oldest first
RECURSIVE Delivered(_)
Delivered(c) ==
    IF c.events = <<>> THEN c
    ELSE Delivered(Listener([c EXCEPT !.events = Tail(@)], Head(c.events)))

\* Ready at the start of the clip
Stopped(c) ==
    /\ c.media.paused
    /\ c.media.currentTime = 0
    /\ ~c.isPlaying
    /\ c.audioProgress = 0
    /\ c.audioStatus \in {"Ready to play", "Preview: default clip"}

\* C22: in every state in which a resource exists, stopAudio leaves the
\* controller Ready (element paused, position 0, isPlaying false,
\* audioProgress 0), and the same holds once every media event pending when
\* stopAudio returns has been delivered.
C22_StopLeavesReady ==
    audioElement # 0 =>
        /\ Stopped(stopAudio(Ctl))
        /\ Stopped(Delivered(stopAudio(Ctl)))

\* C22 (witness): stopAudio has just run on a clip that was playing; its pause
\* and seek events are still pending.
C22_Witness ==
    /\ events = <<"timeupdate", "pause", "timeupdate">>
    /\ media.paused /\ media.currentTime = 0 /\ media.duration # 0
    /\ ~isPlaying /\ audioProgress = 0
    /\ audioStatus \in {"Ready to play", "Preview: default clip"}

\* the controller's status, as updateAudioStatus tells the cases apart
ControllerStatus ==
    IF audioElement = 0 THEN "Idle"
    ELSE IF isPlaying THEN "Playing"
    ELSE IF media.ended THEN "Ended"
    ELSE IF media.currentTime > 0 THEN "Paused"
    ELSE "Ready"

\* the origin of the resource held: a blob URL is generated audio
ResourceOrigin == IF media.src > 0 THEN "Generated" ELSE "Fallback"

\* the label of each (status, origin)
Projection(status, origin) ==
    CASE status = "Playing" -> "Playing..."
      [] status = "Paused" -> "Paused"
      [] status = "Ended" -> "Finished"
      [] status = "Ready" /\ origin = "Generated" -> "Ready to play"
      [] status = "Ready" /\ origin = "Fallback" -> "Preview: default clip"

\* C23: the status label shown is a function of (controller status, resource
\* origin): Ready with the fallback clip shows 'Preview: default clip', Ready
\* with generated audio 'Ready to play', Playing 'Playing...', Paused
\* 'Paused', Ended 'Finished'.  Stated for the states in which a resource
\* exists and no media event awaits delivery, where the label has been
\* refreshed after the last change of the element.
C23_LabelIsProjection ==
    (audioElement # 0 /\ events = <<>>)
        => audioStatus = Projection(ControllerStatus, ResourceOrigin)

\* C24: at most one generateVoice request is in flight at any time: while one
\* is, the voice button is disabled and no second request can be started.
C24_OneVoiceRequest ==
    /\ Len(voiceCalls) <= 1
    /\ voiceCalls # <<>> => voiceBtnDisabled
    /\ voiceBtnDisabled => ~ENABLED GenerateVoice

\* C24 (witness): a voice request is in flight for an earlier story while the
\* story has been generated again.
C24_Witness ==
    /\ Len(voiceCalls) = 1
    /\ voiceBtnDisabled
    /\ voiceCalls[1].text # currentStory

\* C27: generateVoice called while no story exists sends no request, shows the
\* fixed 'Please generate a story first!' notice and changes no playback
\* state and no loading state.
C27_VoicePreflight ==
    [][ (currentStory = 0 /\ GenerateVoice)
        => /\ voiceCalls' = voiceCalls
           /\ popup' = [message |-> NoStoryMsg, type |-> "error"]
           /\ UNCHANGED <<currentStory, audioElement, isGenerating,
                          isAudioGenerated, isPlaying, audioProgress, media,
                          events, created, urls, revoked, audioStatus,
                          generateBtnDisabled, voiceBtnDisabled, storyCall,
                          thrown>> ]_vars

\* C27 (witness): the notice is up, there is no story, no request and no
\* audio element, and the voice button is enabled.
C27_Witness ==
    /\ popup.message = NoStoryMsg
    /\ currentStory = 0
    /\ voiceCalls = <<>>
    /\ ~voiceBtnDisabled
    /\ audioElement = 0

\* C25: the controller is Idle exactly when it has no resource: while
\* audioElement is null, isPlaying is false, audioProgress is 0,
\* isAudioGenerated is false and no status has been reported; while
\* audioElement is non-null the status reported is one of Ready, Playing,
\* Paused and Ended, never Idle.
C25_IdleIffNoResource ==
    /\ audioElement = 0 =>
          /\ ~isPlaying
          /\ audioProgress = 0
          /\ ~isAudioGenerated
          /\ audioStatus = ""
    /\ audioElement # 0 =>
          audioStatus \in {"Preview: default clip", "Ready to play",
                           "Playing...", "Paused", "Finished"}

\* C25 (witness): a story generation has failed and the controller is still
\* Idle, with no audio element.
C25_Witness ==
    /\ audioElement = 0
    /\ errorMessage = StoryFailedMsg
    /\ ~isPlaying /\ audioProgress = 0 /\ ~isAudioGenerated

\* C26: in every reachable state 0 <= audioProgress <= 100, for every position
\* and duration the element reports (duration unknown included).
C26_ProgressInBounds ==
    /\ audioProgress \in 0..100
    /\ \A ev \in {"ended", "play", "pause", "timeupdate", "error"} :
          Listener(Ctl, ev).audioProgress \in 0..100

\* C26 (witness): the clip has played to its end and the timeupdate of the
\* last position has set audioProgress to the full-scale value.
C26_Witness ==
    /\ audioProgress = 100
    /\ media.ended
    /\ media.currentTime = media.duration

\* C28: on a successful voice generation the superseded element is paused
\* first, then its blob URL (if any) is revoked, and only then is the new
\* element assigned: no URL is revoked while its element is playing or after
\* the new element has been assigned.
C28_SwapOrder ==
    (audioElement # 0 /\ urls < MaxBlobs) =>
        LET s == SwapSteps(Ctl)
        IN  /\ s[2].media.paused
            /\ s[2].revoked = revoked
            /\ s[2].audioElement = audioElement
            /\ s[3].audioElement = audioElement
            /\ s[3].media.paused
            /\ s[3].revoked =
                  IF media.src > 0
                  THEN [revoked EXCEPT ![media.src] = @ + 1]
                  ELSE revoked
            /\ s[4].audioElement # audioElement
            /\ s[4].revoked = s[3].revoked
            /\ \A k \in 1..3 :
                  s[k + 1].revoked # s[k].revoked
                     => s[k].media.paused /\ s[k].audioElement = audioElement
            /\ ReplaceAudio(Ctl).audioElement = s[4].audioElement
            /\ ReplaceAudio(Ctl).revoked = s[4].revoked

\* C28 (witness): a generated audio that was playing has just been
\* superseded: its URL is revoked, the new element is current, and the pause
\* event of the old element is still pending.
C28_Witness ==
    /\ urls = 2
    /\ media.src = 2
    /\ revoked[1] = 1
    /\ events = <<"timeupdate", "pause">>
    /\ isPlaying
    /\ popup.message = SuccessMsg

\* C29: the origin flag matches the resource held: whenever an audio element
\* exists, isAudioGenerated is true if and only if the element's source is a
\* generated blob URL (false if and only if it is the fallback URL).
C29_OriginFlagMatchesResource ==
    audioElement # 0 => (isAudioGenerated <=> media.src # FALLBACK_AUDIO_URL)

\* C30: whenever no media event awaits delivery, isPlaying is true if and
\* only if the current audio element exists and is not paused, and delivering
\* the events that are pending always leads to such a state.
C30_PlayingFlagMatchesElement ==
    /\ events = <<>> => (isPlaying <=> (audioElement # 0 /\ ~media.paused))
    /\ LET d == Delivered(Ctl)
       IN  d.isPlaying <=> (d.audioElement # 0 /\ ~d.media.paused)

\* C30 (witness): the second generated audio is playing and isPlaying is
\* true, with every event of the two superseded elements delivered.
C30_Witness ==
    /\ events = <<>>
    /\ isPlaying
    /\ ~media.paused
    /\ media.src = 2
    /\ revoked[1] = 1
    /\ created = 3

\* C31: an upstream failure whose status code is 429 is answered as quota,
\* whatever its body: status 429 with errorType 'quota_exceeded'.
C31_Upstream429IsQuota ==
    (ServedFailure /\ probe.up.statusCode = 429)
        => /\ probe.response.status = 429
           /\ ErrorTypeOf(probe.response.body) = <<"quota_exceeded">>

\* c and d hold the same resource with the same origin flag
SameResource(c, d) ==
    /\ d.audioElement = c.audioElement
    /\ d.media.src = c.media.src
    /\ d.isAudioGenerated = c.isAudioGenerated
    /\ d.created = c.created
    /\ d.urls = c.urls
    /\ d.revoked = c.revoked

ReachedEnd ==
    /\ audioElement # 0
    /\ media.ended
    /\ events # <<>>
    /\ events[Len(events)] = "ended"

\* C33: when playback has reached the end of the media, then after the
\* ended event has been handled isPlaying is false, audioProgress is 0, the
\* label is 'Finished' and the resource is unchanged.
C33_EndOfMediaGivesEnded ==
    ReachedEnd =>
        LET d == Delivered(Ctl)
        IN  /\ ~d.isPlaying
            /\ d.audioProgress = 0
            /\ d.audioStatus = "Finished"
            /\ d.media.ended /\ d.media.paused
            /\ SameResource(Ctl, d)

\* C33 (witness): the ended event of a clip played to its end has been
\* handled.
C33_Witness ==
    /\ events = <<>>
    /\ media.ended
    /\ media.currentTime = media.duration
    /\ ~isPlaying
    /\ audioProgress = 0
    /\ audioStatus = "Finished"

\* the toast type of each classified error type
ToastTypeOf(type) == IF type = "quota" THEN "warning" ELSE "error"

\* C34: each of the three fixed failure messages of generateVoice is shown
\* with the toast type of its error type: the quota message as 'warning', the
\* authentication message and the generic message as 'error'.
C34_PopupTypeMatchesErrorType ==
    \A type \in {"quota", "auth", "network"} :
        popup.message = FixedMessage(type) => popup.type = ToastTypeOf(type)

\* C35: loading state is always cleared: isGenerating and the disabled state
\* of the generate button last exactly as long as the story request, the
\* disabled state of the voice button exactly as long as the voice request;
\* every request, however it ends, is followed by a state with isGenerating
\* false and the button enabled, in which a story generation can be started;
\* while isGenerating is true a generateStory call starts no request.
C35_LoadingAlwaysCleared ==
    /\ [](isGenerating <=> storyCall = "fetch")
    /\ [](generateBtnDisabled <=> isGenerating)
    /\ [](voiceBtnDisabled <=> voiceCalls # <<>>)
    /\ [](isGenerating => ~generateStory(TRUE, isGenerating).fetch)
    /\ (isGenerating ~> (~isGenerating /\ ~generateBtnDisabled))
    /\ (voiceBtnDisabled ~> ~voiceBtnDisabled)

\* C35 (witness): a story request has ended in a thrown exception (the fetch
\* was rejected) and the loading state is cleared.
C35_Witness ==
    /\ errorMessage = FetchFailedMsg
    /\ ~isGenerating
    /\ ~generateBtnDisabled
    /\ storyCall = "idle"


\* the blob URLs of controller c that have been created and not revoked
Unrevoked(c) == {u \in 1..c.urls : c.revoked[u] = 0}

\* C36: no generated audio handle leaks: between the runs of generateVoice
\* the blob URLs created and not yet revoked are exactly the source of the
\* current element when that source is generated audio, and none when it is
\* the fallback clip or there is no element; and a further successful voice
\* generation leaves exactly its own URL unrevoked.
C36_NoHandleLeak ==
    /\ Unrevoked(Ctl) = IF audioElement # 0 /\ ResourceOrigin = "Generated"
                        THEN {media.src} ELSE {}
    /\ urls < MaxBlobs => Unrevoked(SwapSteps(Ctl)[4]) = {urls + 1}

\* C36 (witness): a story generated after a successful voice generation has
\* set isAudioGenerated to false; a second voice generation has then replaced
\* the first audio, whose URL is revoked.
C36_Witness ==
    /\ urls = 2
    /\ media.src = 2
    /\ revoked[1] = 1 /\ revoked[2] = 0
    /\ currentStory = 2
    /\ voiceCalls = <<>>

\* C37: the deployment variants of the generate-audio endpoint are
\* equivalent: once the Vercel handler, the Netlify function and the Express
\* route have answered the same request in the same environment with the
\* same upstream outcome, the three responses have the same HTTP status and
\* the same errorType.
C37_VariantsEquivalent ==
    ( /\ probe.response # NoResponse
      /\ probe.netlify # NoResponse
      /\ probe.express # NoResponse )
        => /\ probe.response.status = probe.netlify.status
           /\ probe.netlify.status = probe.express.status
           /\ ErrorTypeOf(probe.response.body) = ErrorTypeOf(probe.netlify.body)
           /\ ErrorTypeOf(probe.netlify.body) = ErrorTypeOf(probe.express.body)
=============================================================================
